---- MODULE Spec2Model ----
(***************************************************************************)
(* Model of the MRI tumour classifier: utils.py (postprocess_prediction)   *)
(* and streamlit_app_new.py (model provisioning, the cached model, the     *)
(* script run of one request, _postprocess).                               *)
(*                                                                         *)
(* Numbers.  Scores and probabilities are fixed-point: the float 1.0 is    *)
(* the integer One (1000), so 0.1 is 100 and atol=1e-3 is 1.  A            *)
(* probability vector is a pair (nums, den) and stands for nums[i]/den.    *)
(***************************************************************************)
EXTENDS Integers, Sequences, FiniteSets, TLC

VARIABLES
    pred,             \* the model output being postprocessed (preds)
    utilsOut,         \* result of utils.postprocess_prediction(pred)
    appOut,           \* result of the app's _postprocess(pred)
    secrets,          \* st.secrets: a set of <<key, value>> pairs
    fileExists,       \* os.path.exists(DEFAULT_MODEL_PATH)
    fileContent,      \* bytes of the file at DEFAULT_MODEL_PATH
    body,             \* chunks of the HTTP response of the last download
    resp,             \* chunks of that response not yet read
    pc,               \* position of the script run
    model,            \* the script's variable `model`
    model_load_error, \* the script's variable `model_load_error`
    cache,            \* value cached by st.cache_resource for get_model()
    uploaded,         \* the file held by st.file_uploader in this run
    ui,               \* elements rendered by the current (or last) run
    exc,              \* exception that escaped the current (or last) run
    runs,             \* script runs started so far
    nGet,             \* requests.get calls so far
    nLoad,            \* load_model calls so far
    loadedFrom,       \* state of the file at the last load_model call
    predictCalls,     \* values of `model` on which .predict was invoked
    shown,            \* the prediction display of the current (or last) run
    src,              \* the source given to preprocessing
    utilsX,           \* result of utils.preprocess_image(src)
    appX,             \* result of Image.open and the app's _preprocess on src
    files,            \* the file system at the four candidate model paths
    path,             \* DEFAULT_MODEL_PATH of each session ("" before it is computed)
    spc,              \* position of each session in its provisioning call
    sresp,            \* chunks that each session's response has still to deliver
    soff,             \* write offset of each session's open file
    sread             \* what load_model read in each session

postVars == <<pred, utilsOut, appOut>>
appVars == <<secrets, fileExists, fileContent, body, resp, pc, model, model_load_error,
             cache, uploaded, ui, exc, runs, nGet, nLoad, loadedFrom, predictCalls>>
preVars == <<src, utilsX, appX>>
histVars == <<shown>>
twoVars == <<files, path, spc, sresp, soff, sread>>
vars == <<pred, utilsOut, appOut, secrets, fileExists, fileContent, body, resp, pc, model,
          model_load_error, cache, uploaded, ui, exc, runs, nGet, nLoad, loadedFrom,
          predictCalls, shown, src, utilsX, appX, files, path, spc, sresp, soff, sread>>

-----------------------------------------------------------------------------
(* Bounds of the postprocessing inputs *)

\* longest flattened model output that is tried
MaxLen == 5
\* largest number of rows of a batched model output
MaxRows == 2
\* script runs (reruns) of one process
MaxRuns == 3
\* chunks of one HTTP response
MaxChunks == 2

\* entries tried in length-4 outputs: 0.1 .. 0.4, 0.5, 1.0, 2.0, 3.0,
\* a negative score, zero, and 0.001 (the width of the tolerance)
Vals == {-500, 0, 1, 100, 200, 300, 400, 500, 1000, 2000, 3000}
\* entries tried in outputs of the other lengths and in batches
OtherVals == {-500, 0, 1000}

-----------------------------------------------------------------------------
(* Constants of the program *)

LABELS == <<"glioma", "meningioma", "notumor", "pituitary">>

\* the literal 1.0 of np.allclose(probs.sum(), 1.0, atol=1e-3)
One == 1000
\* atol=1e-3 (the default rtol=1e-5 adds 0.00001, below the grid)
Atol == 1
\* np.exp(0.0) = 1.0 in the fixed-point scale of the exponentials
ExpOne == 10000

None == [kind |-> "none"]

-----------------------------------------------------------------------------
(* numpy helpers *)

RECURSIVE SumSeq(_)
SumSeq(v) == IF v = <<>> THEN 0 ELSE Head(v) + SumSeq(Tail(v))

RECURSIVE Flatten(_)
Flatten(rows) == IF rows = <<>> THEN <<>> ELSE Head(rows) \o Flatten(Tail(rows))

MaxOf(v) == CHOOSE m \in {v[i] : i \in 1..Len(v)} : \A i \in 1..Len(v) : v[i] <= m

argmax_last(v) == CHOOSE i \in 1..Len(v) :
                      /\ v[i] = MaxOf(v)
                      /\ \A j \in 1..Len(v) : j > i => v[j] < v[i]

\* np.argmax: the first index holding the maximum (1-based here)
argmax(v) == CHOOSE i \in 1..Len(v) :
                 /\ v[i] = MaxOf(v)
                 /\ \A j \in 1..(i-1) : v[j] < v[i]

\* e^(-q) * ExpOne for whole q, truncated
ExpWhole(q) == IF q = 0 THEN ExpOne
               ELSE IF q = 1 THEN 3678
               ELSE IF q = 2 THEN 1353
               ELSE IF q = 3 THEN 497
               ELSE IF q = 4 THEN 183
               ELSE IF q = 5 THEN 67
               ELSE IF q = 6 THEN 24
               ELSE IF q = 7 THEN 9
               ELSE IF q = 8 THEN 3
               ELSE IF q = 9 THEN 1
               ELSE 0

\* Taylor series of e^(-r/One) * ExpOne for 0 <= r < One: the term of
\* order k is term * r / (One * k), added with alternating sign
RECURSIVE ExpFrac(_, _, _, _)
ExpFrac(r, k, term, sign) ==
    IF term = 0 THEN 0
    ELSE sign * term + ExpFrac(r, k + 1, (term * r) \div (One * (k + 1)), -sign)

\* np.exp(x) for x = -d/One <= 0, in units of 1/ExpOne
ExpNeg(d) == (ExpWhole(d \div One) * ExpFrac(d % One, 0, ExpOne, 1)) \div ExpOne

\* e^q * One for whole q >= 1, truncated
ExpPos(q) == IF q = 1 THEN 2718
             ELSE IF q = 2 THEN 7389
             ELSE IF q = 3 THEN 20085
             ELSE 54598

\* np.exp(x) for x in units of 1/One, in units of 1/ExpOne: a positive x is
\* split as q - d with q whole and 0 <= d < 1
np_exp(x) ==
    IF x <= 0 THEN ExpNeg(-x)
    ELSE LET q == (x + One - 1) \div One
         IN  (ExpPos(q) * ExpNeg(q * One - x)) \div One

-----------------------------------------------------------------------------
(* utils.py: postprocess_prediction *)

\* Exceptions and results
Raise(e, msg) == [kind |-> "raise", exc |-> e, msg |-> msg]

\* pred[0] without the reshape
FirstRow_no_reshape(p) == p.rows[1]
\* pred = np.asarray(pred); reshape(1, -1) unless already (1, C); pred[0]
FirstRow(p) == IF p.ndim # 2 \/ Len(p.rows) # 1
               THEN Flatten(p.rows)
               ELSE p.rows[1]

\* np.allclose(s, 1.0, atol=1e-3)
allclose_one(s) == s - One <= Atol /\ One - s <= Atol

NeedsSoftmax_no_negative_test(probs) == ~ allclose_one(SumSeq(probs))

NeedsSoftmax_inverted(probs) ==
    \/ allclose_one(SumSeq(probs))
    \/ \E i \in 1..Len(probs) : probs[i] < 0

\* not np.allclose(probs.sum(), 1.0, atol=1e-3) or np.any(probs < 0)
NeedsSoftmax(probs) ==
    \/ ~ allclose_one(SumSeq(probs))
    \/ \E i \in 1..Len(probs) : probs[i] < 0

\* the scores shifted by their minimum
softmax_args_min_shift(probs) ==
    LET m == CHOOSE m \in {probs[i] : i \in 1..Len(probs)} :
                 \A i \in 1..Len(probs) : m <= probs[i]
    IN  [i \in 1..Len(probs) |-> probs[i] - m]
\* probs - np.max(probs)
softmax_args(probs) == [i \in 1..Len(probs) |-> probs[i] - MaxOf(probs)]

\* the exponentials of the differences taken the other way round
softmax_exps_negated(probs) ==
    [i \in 1..Len(probs) |-> np_exp(MaxOf(probs) - probs[i])]
\* e = np.exp(probs - np.max(probs))
softmax_exps(probs) == [i \in 1..Len(probs) |-> np_exp(softmax_args(probs)[i])]

\* len(LABELS) != probs.shape[-1]
LengthMismatch(probs) == Len(LABELS) # Len(probs)

\* idx, label, confidence and the returned triple
TopResult(nums, den, softmaxed) ==
    LET idx == argmax(nums)
    IN  [kind |-> "ok", idx |-> idx, label |-> LABELS[idx],
         confidence |-> nums[idx], probs |-> nums, den |-> den,
         softmaxed |-> softmaxed]

postprocess_prediction(p) ==
    LET probs == FirstRow(p)
    IN  IF NeedsSoftmax(probs)
        THEN IF probs = <<>>
             THEN \* np.max of a zero-size array
                  Raise("ValueError", "zero-size array to reduction operation maximum")
             ELSE LET e == softmax_exps(probs)
                  IN  IF LengthMismatch(e)
                      THEN Raise("ValueError", "Label length != model outputs")
                      ELSE TopResult(e, SumSeq(e), TRUE)
        ELSE IF LengthMismatch(probs)
             THEN Raise("ValueError", "Label length != model outputs")
             ELSE TopResult(probs, One, FALSE)

-----------------------------------------------------------------------------
(* streamlit_app_new.py: _postprocess *)

LabelSet == {LABELS[i] : i \in 1..Len(LABELS)}

\* a list with two class names exchanged
APP_LABELS_swapped == <<"meningioma", "glioma", "notumor", "pituitary">>
\* the app's own copy of the label list
APP_LABELS == <<"glioma", "meningioma", "notumor", "pituitary">>

_postprocess(p) ==
    IF p.ndim # 2
    THEN \* pred[0] is a scalar: probs[i] fails
         Raise("IndexError", "invalid index to scalar variable")
    ELSE LET probs == p.rows[1]
         IN  IF probs = <<>>
             THEN Raise("ValueError", "attempt to get argmax of an empty sequence")
             ELSE LET top_idx == argmax(probs)
                  IN  IF Len(probs) < Len(APP_LABELS)
                      THEN Raise("IndexError", "index out of bounds")
                      ELSE IF top_idx > Len(APP_LABELS)
                      THEN Raise("IndexError", "list index out of range")
                      ELSE [kind |-> "ok", idx |-> top_idx, label |-> APP_LABELS[top_idx],
                            conf_map |-> [l \in {APP_LABELS[i] : i \in 1..Len(APP_LABELS)} |->
                                            probs[CHOOSE i \in 1..Len(APP_LABELS) : APP_LABELS[i] = l]],
                            den |-> One]

-----------------------------------------------------------------------------
(* The postprocessing functions applied to every model output in the bounds *)

Vectors(n) == IF n = Len(LABELS) THEN [1..n -> Vals] ELSE [1..n -> OtherVals]

BatchVals == {0, 1000}
BatchCols == {2, Len(LABELS)}

Inputs ==
    {[ndim |-> d, rows |-> <<v>>] : d \in {1, 2}, v \in UNION {Vectors(n) : n \in 0..MaxLen}}
    \cup
    UNION {UNION {{[ndim |-> 2, rows |-> rs] : rs \in [1..k -> [1..c -> BatchVals]]}
                  : c \in BatchCols} : k \in 2..MaxRows}

-----------------------------------------------------------------------------
(* PIL images and preprocessing: utils.preprocess_image, the app's          *)
(* _preprocess.                                                             *)
(*                                                                          *)
(* An image is [mode, w, h, row, palette]: every line of the image holds    *)
(* the same pixels `row`, so resampling along the vertical axis leaves the  *)
(* values as they are and only the horizontal pass is computed.  Pixel      *)
(* values of a tensor are fixed-point, 1.0 = One.                           *)

\* utils.py: IMG_SIZE, as (width, height)
IMG_SIZE == <<224, 224>>
\* streamlit_app_new.py: IMAGE_SIZE
IMAGE_SIZE == <<224, 224>>

\* 1.0 in the fixed-point scale of the resampling coefficients
CoefOne == 4096

\* the 'caffe' means of vgg16.preprocess_input for B, G, R
VGG_MEAN == <<103939, 116779, 123680>>

Abs(n) == IF n < 0 THEN -n ELSE n

Reverse(s) == [i \in 1..Len(s) |-> s[Len(s) + 1 - i]]

Bands(mode) == IF mode \in {"L", "P"} THEN 1 ELSE IF mode = "RGB" THEN 3 ELSE 4

\* one pixel of Image.convert("RGB")
ToRGB(img, px) ==
    IF img.mode = "L" THEN <<px[1], px[1], px[1]>>
    ELSE IF img.mode = "P" THEN img.palette[px[1] + 1]
    ELSE IF img.mode = "RGBA" THEN <<px[1], px[2], px[3]>>
    ELSE px

convert_keep_mode(img) == img

\* Image.convert("RGB")
convert_rgb(img) ==
    [mode |-> "RGB", w |-> img.w, h |-> img.h,
     row |-> [i \in 1..Len(img.row) |-> ToRGB(img, img.row[i])],
     palette |-> <<>>]

\* Resample.c: bilinear_filter, the argument is tq / CoefOne
bilinear_filter(tq) == IF Abs(tq) < CoefOne THEN CoefOne - Abs(tq) ELSE 0

\* Resample.c: bicubic_filter with a = -0.5
bicubic_filter(tq) ==
    LET a == Abs(tq)
        t2 == (a * a) \div CoefOne
        t3 == (t2 * a) \div CoefOne
    IN  IF a < CoefOne THEN (3 * t3 - 5 * t2 + 2 * CoefOne) \div 2
        ELSE IF a < 2 * CoefOne THEN (5 * t2 - t3 - 8 * a + 4 * CoefOne) \div 2
        ELSE 0

FilterSupport(f) == IF f = "BILINEAR" THEN 1 ELSE 2

FilterAt(f, tq) == IF f = "BILINEAR" THEN bilinear_filter(tq) ELSE bicubic_filter(tq)

clip8(v) == IF v < 0 THEN 0 ELSE IF v > 255 THEN 255 ELSE v

\* Resample.c, precompute_coeffs and ImagingResampleHorizontal_8bpc: sample
\* xx (from 0) of a line of outw samples computed from the inw values vals
ResampleAt(vals, inw, outw, f, xx) ==
    LET big == IF inw > outw THEN inw ELSE outw
        S == FilterSupport(f)
        lo == ((2 * xx + 1) * inw + outw - 2 * S * big) \div (2 * outw)
        hi == ((2 * xx + 1) * inw + outw + 2 * S * big) \div (2 * outw)
        xmin == IF lo < 0 THEN 0 ELSE lo
        xmax == IF hi > inw THEN inw ELSE hi
        n == xmax - xmin
        ws == [k \in 1..n |->
                 FilterAt(f, (((2 * (xmin + k - 1) + 1) * outw - (2 * xx + 1) * inw) * CoefOne)
                                \div (2 * big))]
        tot == SumSeq(ws)
        kk == [k \in 1..n |-> (2 * ws[k] * CoefOne + tot) \div (2 * tot)]
        acc == SumSeq([k \in 1..n |-> vals[xmin + k] * kk[k]])
    IN  clip8((2 * acc + CoefOne) \div (2 * CoefOne))

\* Image.resize(size) without resample: BICUBIC for an RGB image
DefaultResample == "BICUBIC"

\* Image.resize(size, resample)
resize(img, size, f) ==
    IF <<img.w, img.h>> = size THEN img
    ELSE [mode |-> img.mode, w |-> size[1], h |-> size[2],
          row |-> IF img.w = size[1] THEN img.row
                  ELSE [x \in 1..size[1] |->
                          [b \in 1..Bands(img.mode) |->
                             ResampleAt([i \in 1..img.w |-> img.row[i][b]],
                                        img.w, size[1], f, x - 1)]],
          palette |-> img.palette]

\* np.asarray(img, dtype=np.float32): shape (h, w, bands)
asarray(img) ==
    [shape |-> <<img.h, img.w>> \o (IF Bands(img.mode) = 1 THEN <<>> ELSE <<Bands(img.mode)>>),
     row |-> [i \in 1..Len(img.row) |->
                [b \in 1..Len(img.row[i]) |-> img.row[i][b] * One]]]

\* np.expand_dims(arr, axis=0)
expand_dims(arr) == [shape |-> <<1>> \o arr.shape, row |-> arr.row]

\* vgg16.preprocess_input: RGB -> BGR, then the mean of each channel is subtracted
vgg16_preprocess(arr) ==
    [shape |-> arr.shape,
     row |-> [i \in 1..Len(arr.row) |->
                LET bgr == Reverse(arr.row[i])
                IN  [c \in 1..Len(bgr) |->
                       IF c <= 3 THEN bgr[c] - VGG_MEAN[c] ELSE bgr[c]]]]

Tensor(arr) == [kind |-> "ok", shape |-> arr.shape, row |-> arr.row]

\* Image.open on the bytes `data` read from segment `pos`: the header of the
\* segment is recognized or the call raises having consumed it
PIL_open(data, pos) ==
    IF pos < Len(data) /\ data[pos + 1].kind = "image"
    THEN [kind |-> "ok", img |-> data[pos + 1].img, intact |-> data[pos + 1].intact]
    ELSE Raise("UnidentifiedImageError", "cannot identify image file")

\* the pixel data is loaded by the first operation that needs it
Loaded(opened) ==
    IF opened.kind # "ok" THEN opened
    ELSE IF ~ opened.intact THEN Raise("OSError", "image file is truncated")
    ELSE opened

\* utils._open_image(src), up to and including img.convert("RGB")
_open_image(source) ==
    LET opened ==
            IF source.kind = "filelike"
            THEN \* seek(0), Image.open(src); on failure the rest of the
                 \* stream is read and opened from BytesIO
                 IF PIL_open(source.data, 0).kind = "ok"
                 THEN PIL_open(source.data, 0)
                 ELSE PIL_open(source.data, 1)
            ELSE IF source.kind = "path"
            THEN IF source.exists THEN PIL_open(source.data, 0)
                 ELSE Raise("FileNotFoundError", "no such file")
            ELSE \* a bytes object has no read(): str(src) is opened as a path
                 Raise("FileNotFoundError", "no such file")
        loaded == Loaded(opened)
    IN  IF loaded.kind # "ok" THEN loaded
        ELSE [kind |-> "ok", img |-> convert_rgb(loaded.img)]

\* utils.preprocess_image(src)
preprocess_image(source) ==
    LET o == _open_image(source)
    IN  IF o.kind # "ok" THEN o
        ELSE Tensor(expand_dims(vgg16_preprocess(asarray(resize(o.img, IMG_SIZE, "BILINEAR")))))

\* the app's _preprocess(img_pil)
_preprocess(img_pil) ==
    Tensor(vgg16_preprocess(expand_dims(asarray(
        resize(convert_rgb(img_pil), IMAGE_SIZE, DefaultResample)))))

\* Image.open(io.BytesIO(uploaded.read())) followed by _preprocess(img)
AppPreprocessBytes(data) ==
    LET loaded == Loaded(PIL_open(data, 0))
    IN  IF loaded.kind # "ok" THEN loaded ELSE _preprocess(loaded.img)

-----------------------------------------------------------------------------
(* Images and sources that are tried *)

Modes == {"L", "RGB", "RGBA", "P"}
Sizes == {<<1, 1>>, <<2, 1>>, <<3, 2>>, <<224, 224>>, <<300, 100>>}
Palette3 == << <<255, 0, 0>>, <<0, 255, 0>>, <<10, 20, 250>> >>

\* the level of pixel i: pattern 0 is one colour, pattern 1 varies
Level(pat, i) == IF pat = 0 THEN 90 ELSE (i * 97) % 256

PixelOf(mode, v) ==
    IF mode = "L" THEN <<v>>
    ELSE IF mode = "P" THEN <<v % 3>>
    ELSE IF mode = "RGB" THEN <<v, (v + 50) % 256, 255 - v>>
    ELSE <<v, (v + 50) % 256, 255 - v, 128>>

MkImage(mode, size, pat) ==
    [mode |-> mode, w |-> size[1], h |-> size[2],
     row |-> [i \in 1..size[1] |-> PixelOf(mode, Level(pat, i))],
     palette |-> IF mode = "P" THEN Palette3 ELSE <<>>]

Images == {MkImage(m, sz, pat) : m \in Modes, sz \in Sizes, pat \in {0, 1}}

Junk == [kind |-> "junk"]
Encoded(img, intact) == [kind |-> "image", img |-> img, intact |-> intact]

ValidDatas == {<<Encoded(img, TRUE)>> : img \in Images}
BadDatas == {<< >>, <<Junk>>, <<Junk, Junk>>,
             <<Encoded(MkImage("RGB", <<2, 1>>, 1), FALSE)>>,
             <<Junk, Encoded(MkImage("RGB", <<2, 1>>, 1), TRUE)>>}

NoSource == [kind |-> "none", exists |-> FALSE, data |-> << >>]

Sources ==
    {[kind |-> k, exists |-> TRUE, data |-> d] :
        k \in {"path", "filelike", "bytes"}, d \in ValidDatas \cup BadDatas}
    \cup {[kind |-> "path", exists |-> FALSE, data |-> << >>]}

-----------------------------------------------------------------------------
(* streamlit_app_new.py: configuration *)

\* a string is a sequence of characters; " " is white space
RECURSIVE lstrip(_)
lstrip(s) == IF s # <<>> /\ Head(s) = " " THEN lstrip(Tail(s)) ELSE s

RECURSIVE rstrip(_)
rstrip(s) == IF s # <<>> /\ s[Len(s)] = " " THEN rstrip(SubSeq(s, 1, Len(s) - 1)) ELSE s

strip_nothing(s) == s

\* str.strip()
strip(s) == rstrip(lstrip(s))

\* possible_paths of get_model_path, in the order of the list
possible_paths == <<"script_dir/model.h5", "script_dir/secrets.toml/model.h5",
                    "model.h5", "secrets.toml/model.h5">>
PathSet == {possible_paths[i] : i \in 1..Len(possible_paths)}

\* for path in possible_paths: if os.path.exists(path): return path
RECURSIVE first_existing(_, _)
first_existing(paths, fs) ==
    IF paths = <<>> THEN ""
    ELSE IF fs[Head(paths)].exists THEN Head(paths)
    ELSE first_existing(Tail(paths), fs)

\* a search that keeps the last existing candidate
get_model_path_last_existing(fs) ==
    LET p == first_existing(Reverse(possible_paths), fs)
    IN  IF p = "" THEN possible_paths[1] ELSE p
\* get_model_path(): the first existing candidate, else possible_paths[0]
get_model_path(fs) ==
    LET p == first_existing(possible_paths, fs)
    IN  IF p = "" THEN possible_paths[1] ELSE p

\* the Google Drive link of the except branch
DefaultUrl == <<"d">>

\* try: st.secrets["MODEL_URL"].strip()  except (KeyError, FileNotFoundError): default
ModelUrlOf(sec) ==
    IF \E kv \in sec : kv[1] = "MODEL_URL"
    THEN strip((CHOOSE kv \in sec : kv[1] = "MODEL_URL")[2])
    ELSE DefaultUrl

MODEL_URL == ModelUrlOf(secrets)

\* values of the MODEL_URL secret that are tried
SecretValues == {<<>>, <<" ">>, <<"u">>, <<" ", "u", " ">>}
SecretStores == {{}} \cup {{<<"MODEL_URL", v>>} : v \in SecretValues}

\* the bytes of the serialized model that load_model accepts
ModelBytes == <<1, 2>>

\* a chunk of r.iter_content is a sequence of bytes, possibly empty
Chunks == {<<>>, <<1>>, <<2>>}
Bodies == UNION {[1..n -> Chunks] : n \in 0..MaxChunks}

Handle(n) == [kind |-> "model", id |-> n]

\* the files that are uploaded: six decodable images, one file that is no
\* image and one image file cut short
ValidUploads == {"valid", "valid_gray", "valid_rgba", "valid_palette",
                 "valid_exact", "valid_wide"}
ImageKinds == ValidUploads \cup {"bad_header", "truncated"}

\* uploaded.read(): the bytes of the uploaded file
UploadData(u) ==
    IF u = "valid" THEN <<Encoded(MkImage("RGB", <<2, 1>>, 1), TRUE)>>
    ELSE IF u = "valid_gray" THEN <<Encoded(MkImage("L", <<3, 2>>, 1), TRUE)>>
    ELSE IF u = "valid_rgba" THEN <<Encoded(MkImage("RGBA", <<1, 1>>, 0), TRUE)>>
    ELSE IF u = "valid_palette" THEN <<Encoded(MkImage("P", <<3, 2>>, 1), TRUE)>>
    ELSE IF u = "valid_exact" THEN <<Encoded(MkImage("RGB", <<224, 224>>, 1), TRUE)>>
    ELSE IF u = "valid_wide" THEN <<Encoded(MkImage("L", <<300, 100>>, 1), TRUE)>>
    ELSE IF u = "truncated" THEN <<Encoded(MkImage("RGB", <<2, 1>>, 1), FALSE)>>
    ELSE <<Junk>>

\* outputs of model.predict that are tried on the request path
AppPredSeq ==
    << <<1000, 0, 0, 0, 0>>, <<400, 400, 100, 100>>, <<1000, 2000, 3000, 500>>,
       <<100, 200, 300, 400>>, <<0, 1000, 0>>, <<0, 0, 0, 0, 1000>> >>
AppPreds == {[ndim |-> 2, rows |-> <<AppPredSeq[k]>>] : k \in 1..Len(AppPredSeq)}

\* x = _preprocess(img) for the image opened from each upload that decodes
UploadTensor == [u \in ValidUploads |-> AppPreprocessBytes(UploadData(u))]

\* what the network reads off the input tensor
Checksum(x) == (x.row[1][1] + x.row[2][2] + x.row[Len(x.row)][3]) \div One

\* a network that keeps state between calls: its answer changes once it has
\* been called
model_predict_stateful(x) ==
    [ndim |-> 2,
     rows |-> <<AppPredSeq[((Checksum(x) \div 48 + Cardinality(predictCalls))
                              % Len(AppPredSeq)) + 1]>>]
\* model.predict(x): inference with fixed weights is a function of the tensor
\* alone; the shape of the answer is (1, number of outputs)
model_predict(x) ==
    [ndim |-> 2, rows |-> <<AppPredSeq[((Checksum(x) \div 48) % Len(AppPredSeq)) + 1]>>]

-----------------------------------------------------------------------------
(* Initial states *)

Sessions == {1, 2}
Absent == [exists |-> FALSE, content |-> <<>>]

TwoIdle ==
    /\ files = [f \in PathSet |-> Absent]
    /\ path = [t \in Sessions |-> ""]
    /\ spc = [t \in Sessions |-> "start"]
    /\ sresp = [t \in Sessions |-> <<>>]
    /\ soff = [t \in Sessions |-> 0]
    /\ sread = [t \in Sessions |-> None]

PostIdle ==
    /\ TwoIdle
    /\ utilsOut = None
    /\ appOut = None
    /\ src = NoSource
    /\ utilsX = None
    /\ appX = None

AppIdle ==
    /\ body = <<>>
    /\ resp = <<>>
    /\ pc = "idle"
    /\ model = None
    /\ model_load_error = "none"
    /\ cache = None
    /\ uploaded = "none"
    /\ ui = {}
    /\ exc = "none"
    /\ runs = 0
    /\ nGet = 0
    /\ nLoad = 0
    /\ loadedFrom = None
    /\ predictCalls = {}
    /\ shown = None

PostInit ==
    /\ pred \in Inputs
    /\ PostIdle
    /\ secrets = {}
    /\ fileExists = FALSE
    /\ fileContent = <<>>
    /\ AppIdle

Init ==
    /\ pred = None
    /\ PostIdle
    /\ secrets \in SecretStores
    /\ fileExists \in BOOLEAN
    /\ fileContent \in (IF fileExists THEN {ModelBytes, <<2>>} ELSE {<<>>})
    /\ AppIdle

-----------------------------------------------------------------------------
(* The postprocessing functions applied to a model output *)

CallPostprocessPrediction ==
    /\ utilsOut = None
    /\ utilsOut' = postprocess_prediction(pred)
    /\ UNCHANGED <<pred, appOut>>
    /\ UNCHANGED appVars
    /\ UNCHANGED <<histVars, preVars, twoVars>>

CallPostprocess ==
    /\ appOut = None
    /\ appOut' = _postprocess(pred)
    /\ UNCHANGED <<pred, utilsOut>>
    /\ UNCHANGED appVars
    /\ UNCHANGED <<histVars, preVars, twoVars>>

PostNext == CallPostprocessPrediction \/ CallPostprocess

SpecPost == PostInit /\ [][PostNext]_vars

-----------------------------------------------------------------------------
(* The preprocessing functions applied to a source *)

PreInit ==
    /\ src \in Sources
    /\ utilsX = None
    /\ appX = None
    /\ pred = None
    /\ utilsOut = None
    /\ appOut = None
    /\ secrets = {}
    /\ fileExists = FALSE
    /\ fileContent = <<>>
    /\ AppIdle
    /\ TwoIdle

CallPreprocessImage ==
    /\ utilsX = None
    /\ utilsX' = preprocess_image(src)
    /\ UNCHANGED <<src, appX, postVars, appVars, histVars, twoVars>>

\* the upload handling block on the bytes of the source
CallAppPreprocess ==
    /\ appX = None
    /\ src.exists
    /\ appX' = AppPreprocessBytes(src.data)
    /\ UNCHANGED <<src, utilsX, postVars, appVars, histVars, twoVars>>

PreNext == CallPreprocessImage \/ CallAppPreprocess

SpecPre == PreInit /\ [][PreNext]_vars

-----------------------------------------------------------------------------
(* Two sessions that start at once.  Each runs the script from the top:     *)
(* DEFAULT_MODEL_PATH = get_model_path(), then get_model() with its call of *)
(* _ensure_model_present and load_model.  The code takes no lock and the    *)
(* sessions may be served by different processes on one disk, so the steps  *)
(* of the two calls interleave freely.                                      *)

\* the responses of the model URL: the serialized model, chunked in any way
ModelBodies == {b \in Bodies : Flatten(b) = ModelBytes}

\* f.write(chunk) at the offset of this file object: a gap up to the offset
\* reads as zero bytes
write_at(content, off, chunk) ==
    [i \in 1..(IF off + Len(chunk) > Len(content) THEN off + Len(chunk) ELSE Len(content)) |->
        IF i > off /\ i <= off + Len(chunk) THEN chunk[i - off]
        ELSE IF i <= Len(content) THEN content[i]
        ELSE 0]

TwoInit ==
    /\ files \in {[f \in PathSet |-> IF f \in E THEN [exists |-> TRUE, content |-> ModelBytes]
                                      ELSE Absent] : E \in SUBSET PathSet}
    /\ path = [t \in Sessions |-> ""]
    /\ spc = [t \in Sessions |-> "start"]
    /\ sresp = [t \in Sessions |-> <<>>]
    /\ soff = [t \in Sessions |-> 0]
    /\ sread = [t \in Sessions |-> None]
    /\ pred = None
    /\ utilsOut = None
    /\ appOut = None
    /\ src = NoSource
    /\ utilsX = None
    /\ appX = None
    /\ secrets \in SecretStores
    /\ fileExists = FALSE
    /\ fileContent = <<>>
    /\ AppIdle

TwoFrame == UNCHANGED <<postVars, appVars, histVars, preVars>>

\* DEFAULT_MODEL_PATH = get_model_path()
TwoComputePath(t) ==
    /\ spc[t] = "start"
    /\ path' = [path EXCEPT ![t] = get_model_path(files)]
    /\ spc' = [spc EXCEPT ![t] = "ensure"]
    /\ UNCHANGED <<files, sresp, soff, sread>>
    /\ TwoFrame

\* if os.path.exists(local_path): return
TwoEnsurePresent(t) ==
    /\ spc[t] = "ensure"
    /\ files[path[t]].exists
    /\ spc' = [spc EXCEPT ![t] = "load"]
    /\ UNCHANGED <<files, path, sresp, soff, sread>>
    /\ TwoFrame

\* if not MODEL_URL: raise FileNotFoundError
TwoEnsureNoUrl(t) ==
    /\ spc[t] = "ensure"
    /\ ~ files[path[t]].exists
    /\ MODEL_URL = <<>>
    /\ spc' = [spc EXCEPT ![t] = "failed"]
    /\ UNCHANGED <<files, path, sresp, soff, sread>>
    /\ TwoFrame

\* requests.get or r.raise_for_status() raises
TwoDownloadRefused(t) ==
    /\ spc[t] = "ensure"
    /\ ~ files[path[t]].exists
    /\ MODEL_URL # <<>>
    /\ spc' = [spc EXCEPT ![t] = "failed"]
    /\ UNCHANGED <<files, path, sresp, soff, sread>>
    /\ TwoFrame

\* the existence test has failed; later the response arrives and
\* open(local_path, "wb") creates the file or empties it
TwoDownloadOpen(t) ==
    /\ spc[t] = "ensure"
    /\ ~ files[path[t]].exists
    /\ MODEL_URL # <<>>
    /\ spc' = [spc EXCEPT ![t] = "request"]
    /\ UNCHANGED <<files, path, sresp, soff, sread>>
    /\ TwoFrame

TwoOpenFile(t) ==
    /\ spc[t] = "request"
    /\ \E b \in ModelBodies : sresp' = [sresp EXCEPT ![t] = b]
    /\ files' = [files EXCEPT ![path[t]] = [exists |-> TRUE, content |-> <<>>]]
    /\ soff' = [soff EXCEPT ![t] = 0]
    /\ spc' = [spc EXCEPT ![t] = "stream"]
    /\ UNCHANGED <<path, sread>>
    /\ TwoFrame

\* for chunk in r.iter_content(...): if chunk: f.write(chunk)
TwoStreamChunk(t) ==
    /\ spc[t] = "stream"
    /\ sresp[t] # <<>>
    /\ files' = [files EXCEPT ![path[t]].content =
                    IF Head(sresp[t]) # <<>> THEN write_at(@, soff[t], Head(sresp[t])) ELSE @]
    /\ soff' = [soff EXCEPT ![t] = @ + Len(Head(sresp[t]))]
    /\ sresp' = [sresp EXCEPT ![t] = Tail(@)]
    /\ UNCHANGED <<path, spc, sread>>
    /\ TwoFrame

\* the connection breaks while the body is read
TwoStreamFails(t) ==
    /\ spc[t] = "stream"
    /\ sresp[t] # <<>>
    /\ sresp' = [sresp EXCEPT ![t] = <<>>]
    /\ spc' = [spc EXCEPT ![t] = "failed"]
    /\ UNCHANGED <<files, path, soff, sread>>
    /\ TwoFrame

\* the body is exhausted, the file is closed, _ensure_model_present returns
TwoStreamDone(t) ==
    /\ spc[t] = "stream"
    /\ sresp[t] = <<>>
    /\ spc' = [spc EXCEPT ![t] = "load"]
    /\ UNCHANGED <<files, path, sresp, soff, sread>>
    /\ TwoFrame

\* load_model(local_path, compile=False) reads the file as it is now
TwoLoad(t) ==
    /\ spc[t] = "load"
    /\ sread' = [sread EXCEPT ![t] = files[path[t]]]
    /\ spc' = [spc EXCEPT ![t] = IF files[path[t]].content = ModelBytes THEN "done" ELSE "failed"]
    /\ UNCHANGED <<files, path, sresp, soff>>
    /\ TwoFrame

TwoNext ==
    \E t \in Sessions :
        \/ TwoComputePath(t)
        \/ TwoEnsurePresent(t)
        \/ TwoEnsureNoUrl(t)
        \/ TwoDownloadRefused(t)
        \/ TwoDownloadOpen(t)
        \/ TwoOpenFile(t)
        \/ TwoStreamChunk(t)
        \/ TwoStreamFails(t)
        \/ TwoStreamDone(t)
        \/ TwoLoad(t)

SpecTwo == TwoInit /\ [][TwoNext]_vars

-----------------------------------------------------------------------------
(* The script run of one request *)

disk == <<fileExists, fileContent>>
net == <<body, resp, nGet>>
script == <<model, model_load_error>>

\* A user interaction makes the framework run the script from the top
StartRun(u) ==
    /\ pc = "idle"
    /\ runs < MaxRuns
    /\ runs' = runs + 1
    /\ uploaded' = u
    /\ ui' = {}
    /\ exc' = "none"
    /\ model' = None
    /\ model_load_error' = "none"
    /\ pred' = None
    /\ appOut' = None
    /\ pc' = "get_model"
    /\ UNCHANGED <<utilsOut, secrets, disk, net, cache, nLoad, loadedFrom, predictCalls>>
    /\ shown' = None
    /\ UNCHANGED <<preVars, twoVars>>

CacheHit_never(c) == FALSE

\* st.cache_resource: the function body runs only when no value is cached
CacheHit(c) == c # None

\* model = get_model() answered from the cache
GetModelCached ==
    /\ pc = "get_model"
    /\ CacheHit(cache)
    /\ model' = cache
    /\ ui' = ui \cup {"model_loaded"}
    /\ pc' = "check_model"
    /\ UNCHANGED <<pred, utilsOut, appOut, secrets, disk, net, model_load_error, cache,
                   uploaded, exc, runs, nLoad, loadedFrom, predictCalls>>
    /\ UNCHANGED <<histVars, preVars, twoVars>>

\* model = get_model(): the body of get_model is entered
GetModelMiss ==
    /\ pc = "get_model"
    /\ ~ CacheHit(cache)
    /\ pc' = "ensure"
    /\ UNCHANGED <<pred, utilsOut, appOut, secrets, disk, net, script, cache,
                   uploaded, ui, exc, runs, nLoad, loadedFrom, predictCalls>>
    /\ UNCHANGED <<histVars, preVars, twoVars>>

\* except Exception as e: model = None; model_load_error = e
LoadFailed_uncaught(e) ==
    /\ exc' = e
    /\ pc' = "idle"
    /\ UNCHANGED script

\* try: model = get_model()
\* except Exception as e: model = None; model_load_error = e
LoadFailed(e) ==
    /\ model' = None
    /\ model_load_error' = e
    /\ pc' = "check_model"
    /\ exc' = exc

DownloadFailed_swallowed(e) ==
    /\ pc' = "load"
    /\ UNCHANGED <<script, exc>>

\* except Exception as e: raise FileNotFoundError("Failed to download ...")
DownloadFailed(e) == LoadFailed("FileNotFoundError: failed to download: " \o e)

\* the file exists and is fetched all the same
EnsurePresent_redownloads ==
    /\ pc = "ensure"
    /\ fileExists
    /\ nGet' = nGet + 1
    /\ fileContent' = <<>>
    /\ pc' = "load"
    /\ UNCHANGED <<pred, utilsOut, appOut, secrets, fileExists, body, resp, script, cache,
                   uploaded, ui, exc, runs, nLoad, loadedFrom, predictCalls>>
    /\ UNCHANGED <<histVars, preVars, twoVars>>
\* _ensure_model_present: the file exists, return
EnsurePresent ==
    /\ pc = "ensure"
    /\ fileExists
    /\ pc' = "load"
    /\ UNCHANGED <<pred, utilsOut, appOut, secrets, disk, net, script, cache,
                   uploaded, ui, exc, runs, nLoad, loadedFrom, predictCalls>>
    /\ UNCHANGED <<histVars, preVars, twoVars>>

\* _ensure_model_present: no file and MODEL_URL is empty
EnsureNoUrl ==
    /\ pc = "ensure"
    /\ ~ fileExists
    /\ MODEL_URL = <<>>
    /\ LoadFailed("FileNotFoundError: model file not found")
    /\ UNCHANGED <<pred, utilsOut, appOut, secrets, disk, net, cache,
                   uploaded, ui, runs, nLoad, loadedFrom, predictCalls>>
    /\ UNCHANGED <<histVars, preVars, twoVars>>

\* requests.get or r.raise_for_status() raises: wrapped in FileNotFoundError
DownloadRefused ==
    /\ pc = "ensure"
    /\ ~ fileExists
    /\ MODEL_URL # <<>>
    /\ nGet' = nGet + 1
    /\ ui' = ui \cup {"downloading"}
    /\ \E e \in {"ConnectionError", "HTTPError"} : DownloadFailed(e)
    /\ UNCHANGED <<pred, utilsOut, appOut, secrets, disk, body, resp, cache,
                   uploaded, runs, nLoad, loadedFrom, predictCalls>>
    /\ UNCHANGED <<histVars, preVars, twoVars>>

\* requests.get succeeds with a good status; open(local_path, "wb")
DownloadOpen ==
    /\ pc = "ensure"
    /\ ~ fileExists
    /\ MODEL_URL # <<>>
    /\ nGet' = nGet + 1
    /\ ui' = ui \cup {"downloading"}
    /\ \E b \in Bodies : body' = b /\ resp' = b
    /\ fileExists' = TRUE
    /\ fileContent' = <<>>
    /\ pc' = "stream"
    /\ UNCHANGED <<pred, utilsOut, appOut, secrets, script, cache,
                   uploaded, exc, runs, nLoad, loadedFrom, predictCalls>>
    /\ UNCHANGED <<histVars, preVars, twoVars>>

\* a write that puts the chunk in front of what the file holds
write_chunk_in_front(content, chunk) == chunk \o content
\* if chunk: f.write(chunk)
write_chunk(content, chunk) == IF chunk # <<>> THEN content \o chunk ELSE content

\* for chunk in r.iter_content(...): if chunk: f.write(chunk)
StreamChunk ==
    /\ pc = "stream"
    /\ resp # <<>>
    /\ fileContent' = write_chunk(fileContent, Head(resp))
    /\ resp' = Tail(resp)
    /\ UNCHANGED <<pred, utilsOut, appOut, secrets, fileExists, body, nGet, pc, script,
                   cache, uploaded, ui, exc, runs, nLoad, loadedFrom, predictCalls>>
    /\ UNCHANGED <<histVars, preVars, twoVars>>

\* the connection breaks while the body is read: wrapped in FileNotFoundError
StreamFails ==
    /\ pc = "stream"
    /\ resp # <<>>
    /\ resp' = <<>>
    /\ DownloadFailed("ChunkedEncodingError")
    /\ UNCHANGED <<pred, utilsOut, appOut, secrets, disk, body, nGet, cache,
                   uploaded, ui, runs, nLoad, loadedFrom, predictCalls>>
    /\ UNCHANGED <<histVars, preVars, twoVars>>

\* the body is exhausted: the file is closed, _ensure_model_present returns
StreamDone ==
    /\ pc = "stream"
    /\ resp = <<>>
    /\ ui' = ui \cup {"download_success"}
    /\ pc' = "load"
    /\ UNCHANGED <<pred, utilsOut, appOut, secrets, disk, net, script, cache,
                   uploaded, exc, runs, nLoad, loadedFrom, predictCalls>>
    /\ UNCHANGED <<histVars, preVars, twoVars>>

\* load_model(local_path, compile=False) returns; get_model returns and is cached
LoadModelOk ==
    /\ pc = "load"
    /\ fileExists /\ fileContent = ModelBytes
    /\ nLoad' = nLoad + 1
    /\ loadedFrom' = [exists |-> fileExists, content |-> fileContent]
    /\ cache' = Handle(nLoad + 1)
    /\ model' = Handle(nLoad + 1)
    /\ ui' = ui \cup {"model_loaded"}
    /\ pc' = "check_model"
    /\ UNCHANGED <<pred, utilsOut, appOut, secrets, disk, net, model_load_error,
                   uploaded, exc, runs, predictCalls>>
    /\ UNCHANGED <<histVars, preVars, twoVars>>

\* load_model raises on a missing or unreadable file
LoadModelRaises ==
    /\ pc = "load"
    /\ ~ (fileExists /\ fileContent = ModelBytes)
    /\ nLoad' = nLoad + 1
    /\ loadedFrom' = [exists |-> fileExists, content |-> fileContent]
    /\ LoadFailed("OSError: unable to open file")
    /\ UNCHANGED <<pred, utilsOut, appOut, secrets, disk, net, cache,
                   uploaded, ui, runs, predictCalls>>
    /\ UNCHANGED <<histVars, preVars, twoVars>>

AfterLoadFailureBox_no_stop == "upload"

\* st.stop() after the failure box ends the run
AfterLoadFailureBox == "idle"

\* if model is None: the failure box with the two solutions, st.stop()
ModelMissing ==
    /\ pc = "check_model"
    /\ model = None
    /\ ui' = ui \cup {"model_loading_failed"}
    /\ pc' = AfterLoadFailureBox
    /\ UNCHANGED <<pred, utilsOut, appOut, secrets, disk, net, script, cache,
                   uploaded, exc, runs, nLoad, loadedFrom, predictCalls>>
    /\ UNCHANGED <<histVars, preVars, twoVars>>

ModelReady ==
    /\ pc = "check_model"
    /\ model # None
    /\ pc' = "upload"
    /\ UNCHANGED <<pred, utilsOut, appOut, secrets, disk, net, script, cache,
                   uploaded, ui, exc, runs, nLoad, loadedFrom, predictCalls>>
    /\ UNCHANGED <<histVars, preVars, twoVars>>

\* if uploaded: is false, the rest of the page is rendered
NoUpload ==
    /\ pc = "upload"
    /\ uploaded = "none"
    /\ pc' = "idle"
    /\ UNCHANGED <<pred, utilsOut, appOut, secrets, disk, net, script, cache,
                   uploaded, ui, exc, runs, nLoad, loadedFrom, predictCalls>>
    /\ UNCHANGED <<histVars, preVars, twoVars>>

\* Image.open reads the header only: it raises on an unrecognized header
OpenRaises(u) == PIL_open(UploadData(u), 0).kind # "ok"

\* except Exception: st.error("Could not open image"), st.stop()
OpenFails ==
    /\ pc = "upload"
    /\ uploaded # "none"
    /\ OpenRaises(uploaded)
    /\ ui' = ui \cup {"could_not_open_image"}
    /\ pc' = "idle"
    /\ UNCHANGED <<pred, utilsOut, appOut, secrets, disk, net, script, cache,
                   uploaded, exc, runs, nLoad, loadedFrom, predictCalls>>
    /\ UNCHANGED <<histVars, preVars, twoVars>>

OpenOk ==
    /\ pc = "upload"
    /\ uploaded # "none"
    /\ ~ OpenRaises(uploaded)
    /\ pc' = "show_image"
    /\ UNCHANGED <<pred, utilsOut, appOut, secrets, disk, net, script, cache,
                   uploaded, ui, exc, runs, nLoad, loadedFrom, predictCalls>>
    /\ UNCHANGED <<histVars, preVars, twoVars>>

\* the pixel data is decoded at the first use of the image: it raises when
\* the data is truncated or corrupt
DecodeRaises(u) == Loaded(PIL_open(UploadData(u), 0)).kind # "ok"

\* st.image(img, ...): the image is shown
ShowImage ==
    /\ pc = "show_image"
    /\ ui' = ui \cup {"uploaded_image"}
    /\ pc' = "predict"
    /\ UNCHANGED <<pred, utilsOut, appOut, secrets, disk, net, script, cache,
                   uploaded, exc, runs, nLoad, loadedFrom, predictCalls>>
    /\ UNCHANGED <<histVars, preVars, twoVars>>

\* st.image(img, ...) decodes the pixels and raises outside any try block
ShowImageRaises ==
    /\ pc = "show_image"
    /\ DecodeRaises(uploaded)
    /\ exc' = "OSError"
    /\ pc' = "idle"
    /\ UNCHANGED <<pred, utilsOut, appOut, secrets, disk, net, script, cache,
                   uploaded, ui, runs, nLoad, loadedFrom, predictCalls>>
    /\ UNCHANGED <<histVars, preVars, twoVars>>

\* x = _preprocess(img): img_pil.convert("RGB") decodes the pixels
PreprocessRaises ==
    /\ pc = "predict"
    /\ DecodeRaises(uploaded)
    /\ exc' = "OSError"
    /\ pc' = "idle"
    /\ UNCHANGED <<pred, utilsOut, appOut, secrets, disk, net, script, cache,
                   uploaded, ui, runs, nLoad, loadedFrom, predictCalls>>
    /\ UNCHANGED <<histVars, preVars, twoVars>>

\* x = _preprocess(img); preds = model.predict(x)
Predict ==
    /\ pc = "predict"
    /\ ~ DecodeRaises(uploaded)
    /\ predictCalls' = predictCalls \cup {model}
    /\ IF model = None
       THEN /\ exc' = "AttributeError"
            /\ pc' = "idle"
            /\ pred' = pred
       ELSE /\ pred' = model_predict(UploadTensor[uploaded])
            /\ pc' = "postprocess"
            /\ exc' = exc
    /\ UNCHANGED <<utilsOut, appOut, secrets, disk, net, script, cache,
                   uploaded, ui, runs, nLoad, loadedFrom>>
    /\ UNCHANGED <<histVars, preVars, twoVars>>

\* highest_conf = max(conf.values())
max_values(m) == CHOOSE v \in {m[k] : k \in DOMAIN m} : \A k \in DOMAIN m : m[k] <= v

\* pred_label, conf = _postprocess(preds) and the prediction display
Render ==
    /\ pc = "postprocess"
    /\ appOut' = _postprocess(pred)
    /\ IF appOut'.kind = "raise"
       THEN exc' = appOut'.exc /\ ui' = ui
       ELSE exc' = exc /\ ui' = ui \cup {"prediction"}
    /\ shown' = IF appOut'.kind = "raise" THEN shown
                ELSE [label |-> appOut'.label,
                      confidence |-> max_values(appOut'.conf_map),
                      distribution |-> appOut'.conf_map]
    /\ pc' = "idle"
    /\ UNCHANGED <<pred, utilsOut, secrets, disk, net, script, cache,
                   uploaded, runs, nLoad, loadedFrom, predictCalls>>
    /\ UNCHANGED <<preVars, twoVars>>

Next ==
    \/ \E u \in {"none"} \cup ImageKinds : StartRun(u)
    \/ GetModelCached
    \/ GetModelMiss
    \/ EnsurePresent
    \/ EnsureNoUrl
    \/ DownloadRefused
    \/ DownloadOpen
    \/ StreamChunk
    \/ StreamFails
    \/ StreamDone
    \/ LoadModelOk
    \/ LoadModelRaises
    \/ ModelMissing
    \/ ModelReady
    \/ NoUpload
    \/ OpenFails
    \/ OpenOk
    \/ ShowImage
    \/ ShowImageRaises
    \/ PreprocessRaises
    \/ Predict
    \/ Render

Spec == Init /\ [][Next]_vars

-----------------------------------------------------------------------------
(* Properties of postprocessing, checked under SpecPost *)

\* the flattened model output
Flat == Flatten(pred.rows)

MismatchError == Raise("ValueError", "Label length != model outputs")

\* all entries non-negative and the sum within atol of 1
ValidDist(v) ==
    /\ \A i \in 1..Len(v) : v[i] >= 0
    /\ SumSeq(v) - One <= Atol
    /\ One - SumSeq(v) <= Atol

\* i is the lowest index that holds the largest entry of v
FirstMaxAt(v, i) ==
    /\ i \in 1..Len(v)
    /\ \A j \in 1..Len(v) : v[j] <= v[i]
    /\ \A j \in 1..(i - 1) : v[j] < v[i]

\* the values of a label-to-probability mapping, in label order
MapValues(m) == [i \in 1..Len(LABELS) |-> m[LABELS[i]]]

\* nums/den sums to 1 within the tolerance tol/One and lies in [0, 1]
IsDistribution(nums, den, tol) ==
    /\ den > 0
    /\ (SumSeq(nums) - den) * One <= tol * den
    /\ (den - SumSeq(nums)) * One <= tol * den
    /\ \A i \in 1..Len(nums) : 0 <= nums[i] /\ nums[i] <= den

\* C1: every model output whose flattened length is not 4 makes
\* postprocess_prediction fail with the label-count mismatch ValueError,
\* and every output of flattened length 4 gives a result.
C1_MismatchIsDescriptive ==
    utilsOut # None =>
        /\ Len(Flat) # 4 => utilsOut = MismatchError
        /\ Len(Flat) = 4 => utilsOut.kind = "ok"

\* C2: for every length-4 output the distribution returned by postprocessing
\* (utils.postprocess_prediction and the app's _postprocess) sums to 1 within
\* the tolerance and has every entry in [0, 1].
C2_OutputIsDistribution ==
    /\ (utilsOut.kind = "ok" /\ Len(Flat) = 4) =>
           IsDistribution(utilsOut.probs, utilsOut.den, Atol)
    /\ (appOut.kind = "ok" /\ Len(pred.rows[1]) = 4) =>
           IsDistribution(MapValues(appOut.conf_map), appOut.den, Atol)

\* C3: a length-4 output that is a probability distribution (no negative
\* entry, sum 1) is returned unchanged, with the label of its largest entry
\* and that entry as the confidence; [0.1, 0.2, 0.3, 0.4] gives index 3
\* (1-based 4), "pituitary", 0.4.
C3_DistributionUnchanged ==
    (utilsOut # None /\ Len(Flat) = 4 /\ SumSeq(Flat) = One
       /\ \A i \in 1..4 : Flat[i] >= 0) =>
        /\ utilsOut.kind = "ok"
        /\ utilsOut.probs = Flat
        /\ utilsOut.den = One
        /\ \A j \in 1..4 : Flat[j] <= Flat[utilsOut.idx]
        /\ utilsOut.label = LABELS[utilsOut.idx]
        /\ utilsOut.confidence = Flat[utilsOut.idx]
        /\ Flat = <<100, 200, 300, 400>> =>
               /\ utilsOut.idx = 4
               /\ utilsOut.label = "pituitary"
               /\ utilsOut.confidence = 400

C3_Witness ==
    /\ Flat = <<100, 200, 300, 400>>
    /\ utilsOut.kind = "ok"
    /\ utilsOut.label = "pituitary"

C5_TiesLowestIndex ==
    /\ utilsOut.kind = "ok" =>
           /\ FirstMaxAt(Flat, utilsOut.idx)
           /\ FirstMaxAt(utilsOut.probs, utilsOut.idx)
           /\ utilsOut.label = LABELS[utilsOut.idx]
    /\ appOut.kind = "ok" =>
           /\ FirstMaxAt(pred.rows[1], appOut.idx)
           /\ appOut.label = LABELS[appOut.idx]

\* a tie at the maximum after normalization, seen by both functions
C5_Witness ==
    /\ pred = [ndim |-> 2, rows |-> <<(<<0, 1000, 1000, 0>>)>>]
    /\ utilsOut.kind = "ok" /\ utilsOut.softmaxed /\ utilsOut.idx = 2
    /\ utilsOut.probs[2] = utilsOut.probs[3]
    /\ appOut.kind = "ok" /\ appOut.idx = 2

\* a tie at the maximum on the unchanged path
C5_WitnessUnchanged ==
    /\ Flat = <<100, 400, 400, 100>>
    /\ utilsOut.kind = "ok" /\ ~ utilsOut.softmaxed /\ utilsOut.idx = 2

\* C15: the label list is the fixed sequence glioma, meningioma, notumor,
\* pituitary in utils.py and in the app alike, and every postprocessing result
\* carries the label found at the selected output index of that sequence.
C15_LabelsFixed ==
    /\ LABELS = <<"glioma", "meningioma", "notumor", "pituitary">>
    /\ APP_LABELS = LABELS
    /\ utilsOut.kind = "ok" =>
           \E i \in 1..4 : /\ FirstMaxAt(Flat, i)
                           /\ utilsOut.label = LABELS[i]
    /\ appOut.kind = "ok" =>
           \E i \in 1..4 : /\ FirstMaxAt(pred.rows[1], i)
                           /\ appOut.label = LABELS[i]
                           /\ DOMAIN appOut.conf_map = LabelSet
                           /\ MapValues(appOut.conf_map) = SubSeq(pred.rows[1], 1, 4)

\* both functions have named the third class
C15_Witness ==
    /\ utilsOut.kind = "ok" /\ utilsOut.label = "notumor"
    /\ appOut.kind = "ok" /\ appOut.label = "notumor"
    /\ pred.rows[1][3] > pred.rows[1][1]

\* the softmax of the scores without the shift, in units of 1/One
unshifted_softmax(v) ==
    LET u == [i \in 1..Len(v) |-> np_exp(v[i])]
    IN  [i \in 1..Len(v) |-> (u[i] * One) \div SumSeq(u)]

\* C19: the exponential normalization is shifted by the maximum: every
\* exponent argument is <= 0 and one is 0, so no exponential exceeds 1, the
\* denominator is at least 1, and the result is the distribution of the
\* unshifted softmax of the same scores.
C19_ShiftedSoftmax ==
    (utilsOut # None /\ Flat # <<>> /\ NeedsSoftmax(Flat)) =>
        LET a == softmax_args(Flat)
            e == softmax_exps(Flat)
            u == unshifted_softmax(Flat)
        IN  /\ \A i \in 1..Len(a) : a[i] <= 0
            /\ \E i \in 1..Len(a) : a[i] = 0
            /\ \A i \in 1..Len(e) : 0 <= e[i] /\ e[i] <= ExpOne
            /\ \E i \in 1..Len(e) : e[i] = ExpOne
            /\ SumSeq(e) >= ExpOne
            /\ \A i \in 1..Len(e) :
                   /\ (e[i] * One) \div SumSeq(e) - u[i] <= Atol
                   /\ u[i] - (e[i] * One) \div SumSeq(e) <= Atol
            /\ utilsOut.kind = "ok" =>
                   /\ utilsOut.softmaxed
                   /\ utilsOut.probs = e
                   /\ utilsOut.den = SumSeq(e)

\* raw scores 1.0, 2.0, 3.0, 0.5 have been normalized
C19_Witness ==
    /\ Flat = <<1000, 2000, 3000, 500>>
    /\ utilsOut.kind = "ok"
    /\ utilsOut.softmaxed
    /\ utilsOut.probs[3] = ExpOne
    /\ utilsOut.probs[1] < utilsOut.probs[2]
    /\ utilsOut.den > ExpOne

C21_OneDimAndBatches ==
    utilsOut # None =>
        /\ (pred.ndim = 1 /\ Len(Flat) = 4) =>
               /\ utilsOut = postprocess_prediction([ndim |-> 2, rows |-> <<Flat>>])
               /\ utilsOut.kind = "ok"
               /\ FirstMaxAt(Flat, utilsOut.idx)
               /\ utilsOut.label = LABELS[utilsOut.idx]
               /\ utilsOut.confidence = utilsOut.probs[utilsOut.idx]
               /\ ValidDist(Flat) => utilsOut.probs = Flat
        /\ (pred.ndim = 2 /\ Len(pred.rows) > 1 /\ Len(pred.rows[1]) = 4) =>
               /\ Len(Flat) = 4 * Len(pred.rows)
               /\ utilsOut = MismatchError

\* a batch of two rows has been rejected
C21_Witness ==
    /\ pred = [ndim |-> 2, rows |-> <<(<<0, 1000, 0, 0>>), (<<1000, 0, 0, 0>>)>>]
    /\ utilsOut = MismatchError

\* a 1-D distribution has been labelled
C21_WitnessOneDim ==
    /\ pred = [ndim |-> 1, rows |-> <<(<<100, 200, 300, 400>>)>>]
    /\ utilsOut.kind = "ok" /\ utilsOut.label = "pituitary" /\ utilsOut.confidence = 400

-----------------------------------------------------------------------------
(* Properties of provisioning and of the script run, checked under Spec *)

HasSecret == \E kv \in secrets : kv[1] = "MODEL_URL"
SecretValue == (CHOOSE kv \in secrets : kv[1] = "MODEL_URL")[2]
IsBlank(s) == \A i \in 1..Len(s) : s[i] = " "

NotFound == "FileNotFoundError: model file not found"

\* _ensure_model_present fails here with the not-found error, no download
FailsNotFoundWithoutDownload ==
    /\ nGet' = nGet
    /\ UNCHANGED disk
    /\ model_load_error' = NotFound
    /\ model' = None
    /\ pc' = "check_model"

C7_DownloadBeforeLoad ==
    /\ loadedFrom # None => loadedFrom.exists
    /\ pc = "load" =>
           /\ fileExists
           /\ resp = <<>>
           /\ model_load_error = "none"
           /\ "downloading" \in ui =>
                  /\ "download_success" \in ui
                  /\ fileContent = Flatten(body)

C7_Witness ==
    /\ "download_success" \in ui
    /\ "model_loaded" \in ui
    /\ nGet > 0
    /\ loadedFrom = [exists |-> TRUE, content |-> Flatten(body)]
    /\ Len(body) = 2

\* C8: once a model is cached it is never replaced, the file is neither
\* provisioned nor deserialized again, and every get_model() returns it.
C8_CachedForever ==
    [][cache # None =>
          /\ cache' = cache
          /\ nLoad' = nLoad
          /\ nGet' = nGet
          /\ UNCHANGED disk
          /\ pc' \notin {"ensure", "stream", "load"}
          /\ pc = "get_model" => model' = cache]_vars

\* the second run gets the handle that the first run loaded
C8_Witness ==
    /\ runs = 2
    /\ nGet = 0
    /\ nLoad = 1
    /\ pc = "check_model"
    /\ cache = Handle(1)
    /\ model = cache

\* C9: a failed load shows the failure box and ends the run before the
\* upload section, and predict is never invoked on None.
C9_LoadFailureIsFatal ==
    /\ None \notin predictCalls
    /\ pc \in {"upload", "show_image", "predict", "postprocess"} => model # None
    /\ (pc = "idle" /\ runs > 0 /\ model = None) =>
           /\ model_load_error # "none"
           /\ "model_loading_failed" \in ui
           /\ ui \cap {"could_not_open_image", "uploaded_image", "prediction"} = {}
           /\ exc = "none"
           /\ pred = None

C9_Witness ==
    /\ pc = "idle"
    /\ runs > 0
    /\ uploaded = "valid"
    /\ model = None
    /\ "model_loading_failed" \in ui

\* C10: a run with a malformed upload (bad header, or truncated pixel data)
\* ends with the user-facing error, without inference, without a rendered
\* prediction and without an escaping exception.
C10_MalformedImageHandled ==
    uploaded \in {"bad_header", "truncated"} =>
        /\ pc # "postprocess"
        /\ "prediction" \notin ui
        /\ exc = "none"
        /\ (pc = "idle" /\ model # None) => "could_not_open_image" \in ui

DownloadErrors ==
    {"FileNotFoundError: failed to download: " \o e :
        e \in {"ConnectionError", "HTTPError", "ChunkedEncodingError"}}

\* C11 as stated: a network error during the download escapes the run as an
\* unhandled exception and is not turned into a handled error state.
C11_DownloadErrorEscapes ==
    (pc = "idle" /\ (model_load_error \in DownloadErrors \/ exc \in DownloadErrors)) =>
        /\ exc \in DownloadErrors
        /\ "model_loading_failed" \notin ui

\* C11 amended: a network error during the download (refused connection,
\* HTTP error status, broken stream) is re-raised as FileNotFoundError, caught
\* by the model loading block, shown in the failure box, and the run is
\* stopped; no exception escapes the run.
C11_DownloadErrorHandled ==
    /\ exc \notin DownloadErrors
    /\ (pc = "check_model" /\ nGet > 0 /\ "downloading" \in ui /\ "download_success" \notin ui) =>
           /\ model = None
           /\ model_load_error \in DownloadErrors
    /\ (pc = "idle" /\ model_load_error \in DownloadErrors) =>
           /\ model = None
           /\ "model_loading_failed" \in ui
           /\ "prediction" \notin ui
           /\ exc = "none"

\* a stream that broke after the first chunk, handled
C11_Witness ==
    /\ pc = "idle"
    /\ model_load_error = "FileNotFoundError: failed to download: ChunkedEncodingError"
    /\ fileExists /\ fileContent = <<1>> /\ Len(body) = 2
    /\ "model_loading_failed" \in ui
    /\ exc = "none"

\* C16: every rendered prediction is a triple whose distribution maps exactly
\* the four labels, whose confidence lies in [0, 1], and whose displayed
\* confidence is the distribution's value for the predicted label.
C16_RenderedTriple ==
    shown # None =>
        /\ DOMAIN shown.distribution = LabelSet
        /\ 0 <= shown.confidence /\ shown.confidence <= One
        /\ shown.confidence = shown.distribution[shown.label]

\* the triple that the bytes of upload u determine
ResultOf(u) ==
    LET r == _postprocess(model_predict(UploadTensor[u]))
    IN  IF r.kind = "raise" THEN None
        ELSE [label |-> r.label, confidence |-> max_values(r.conf_map),
              distribution |-> r.conf_map]

C18_WrongLengthNeverRendered ==
    (pc = "idle" /\ appOut # None /\ Len(pred.rows[1]) # 4) =>
        /\ appOut.kind = "raise"
        /\ exc = appOut.exc
        /\ "prediction" \notin ui
        /\ shown = None

\* C23: when the local model file exists, _ensure_model_present returns
\* normally without a network request and leaves the file as it is, whatever
\* MODEL_URL is.
C23_ExistingFileNoNetwork ==
    [][(pc = "ensure" /\ fileExists) =>
          /\ pc' = "load"
          /\ UNCHANGED <<disk, net>>
          /\ UNCHANGED <<exc, model_load_error>>
          /\ "downloading" \notin ui']_vars

\* the file was there and a URL is configured: the call has returned, no
\* request was made
C23_Witness ==
    /\ pc = "load"
    /\ runs = 1
    /\ MODEL_URL # <<>>
    /\ nGet = 0
    /\ fileExists /\ fileContent = ModelBytes

\* C24: an HTTP error status is detected before the local file is opened, so
\* no file is created then; after a successful download the file holds the
\* non-empty chunks of the response in arrival order and nothing else.
C24_DownloadedContent ==
    /\ model_load_error \in {"FileNotFoundError: failed to download: HTTPError",
                              "FileNotFoundError: failed to download: ConnectionError"} =>
           ~ fileExists /\ fileContent = <<>>
    /\ pc = "stream" => fileExists /\ fileContent \o Flatten(resp) = Flatten(body)
    /\ "download_success" \in ui => fileExists /\ fileContent = Flatten(body)

\* two non-empty chunks have been written in order
C24_Witness ==
    /\ "download_success" \in ui
    /\ body = << <<1>>, <<>>, <<2>> >> \/ body = << <<1>>, <<2>> >>
    /\ fileContent = <<1, 2>>

\* C25: a file exists at the model path only if it was there beforehand or
\* was downloaded completely: a load never follows a download that broke
\* off, and no partial file is left over.
C25_NoPartialFile ==
    (fileExists /\ pc # "stream") =>
        \/ nGet = 0
        \/ fileContent = Flatten(body)

-----------------------------------------------------------------------------
(* Properties of the model path and of two sessions, checked under SpecTwo *)

\* the indices of the candidates that exist
ExistingCandidates ==
    {i \in 1..Len(possible_paths) : files[possible_paths[i]].exists}

\* C22: get_model_path returns the first of its four candidates, in listed
\* order, that exists on disk, and the first candidate when none exists; it
\* never returns a path that does not exist while a later candidate exists.
C22_FirstExistingPath ==
    [][\A t \in Sessions :
          (spc[t] = "start" /\ spc'[t] = "ensure") =>
              /\ path'[t] \in PathSet
              /\ ExistingCandidates = {} => path'[t] = possible_paths[1]
              /\ ExistingCandidates # {} =>
                     \E i \in ExistingCandidates :
                        /\ path'[t] = possible_paths[i]
                        /\ \A j \in ExistingCandidates : i <= j
              /\ ~ files[path'[t]].exists => ExistingCandidates = {}]_vars

\* the first two candidates are missing and the third is returned
C22_Witness ==
    /\ ExistingCandidates = {3, 4}
    /\ \E t \in Sessions : spc[t] = "ensure" /\ path[t] = "model.h5"

\* C26: with two interleaved provisioning calls for the same missing path,
\* neither call has returned from _ensure_model_present, about to load the
\* model, while the other call has the file open and partly written.
C26_NoLoadDuringPartialWrite ==
    \A t, u \in Sessions :
        (t # u /\ path[t] = path[u] /\ spc[u] = "stream") => spc[t] # "load"

-----------------------------------------------------------------------------
(* Properties of preprocessing, checked under SpecPre *)

\* the source holds exactly one intact image
ValidSource == src.exists /\ src.data \in ValidDatas

TensorShapeOk(t) ==
    /\ t.shape = <<1, 224, 224, 3>>
    /\ Len(t.row) = 224
    /\ \A i \in 1..Len(t.row) : Len(t.row[i]) = 3

\* C12: for every valid image, whatever its resolution and colour mode,
\* utils.preprocess_image (path or file-like source) and the app's
\* _preprocess return a tensor of shape (1, 224, 224, 3).
C12_ShapeIs_1_224_224_3 ==
    /\ utilsX.kind = "ok" => TensorShapeOk(utilsX)
    /\ appX.kind = "ok" => TensorShapeOk(appX)
    /\ (utilsX # None /\ ValidSource /\ src.kind \in {"path", "filelike"}) => utilsX.kind = "ok"
    /\ (appX # None /\ ValidSource) => appX.kind = "ok"

\* a 300x100 RGBA image through both functions
C12_Witness ==
    /\ src = [kind |-> "filelike", exists |-> TRUE,
              data |-> <<Encoded(MkImage("RGBA", <<300, 100>>, 1), TRUE)>>]
    /\ utilsX.kind = "ok" /\ utilsX.shape = <<1, 224, 224, 3>>
    /\ appX.kind = "ok" /\ appX.shape = <<1, 224, 224, 3>>

\* C13: both preprocessing paths resize with bilinear interpolation, so they
\* give the same tensor for the same image.
C13_SameTensor ==
    (utilsX.kind = "ok" /\ appX.kind = "ok") => utilsX = appX

\* C14: preprocessing accepts raw image bytes or a file path: it returns a
\* tensor when the bytes are a valid image and fails with a decode error
\* when they are not.
C14_BytesOrPathDecoded ==
    (utilsX # None /\ src.exists /\ src.kind \in {"bytes", "path"}) =>
        /\ ValidSource => utilsX.kind = "ok"
        /\ src.data \in BadDatas =>
               /\ utilsX.kind = "raise"
               /\ utilsX.exc \in {"UnidentifiedImageError", "OSError"}

====
